---------------------------- MODULE Spec2Model ----------------------------
(***************************************************************************)
(* Receipt scanner: the POST /api/scan-receipt route, its extraction and   *)
(* normalisation function analyzeReceiptWithGemini, the Expense schema and *)
(* the records handed to Expense.create.                                   *)
(*                                                                         *)
(* Texts are TLA+ strings; the regular expressions, parseFloat, trim and   *)
(* JSON.parse of the route are computed character by character.  Numbers   *)
(* are integers counting hundredths: 19.99 is 1999, 0.5 is 50, 1 is 100.   *)
(* The texts of the model carry at most two decimals, no exponent and no   *)
(* backslash escape.                                                       *)
(***************************************************************************)
EXTENDS Integers, Sequences, FiniteSets, TLC

VARIABLES
    pc,           \* position of the POST handler
    body,         \* the decoded request body (a JavaScript value)
    emitted,      \* what the vision model was made to emit: the pieces of its answer
    responseText, \* the text analyzeReceiptWithGemini reads from the answer
    tier,         \* which return statement of analyzeReceiptWithGemini produced extractedData
    extractedData,\* the record analyzeReceiptWithGemini returned
    created,      \* the sequence of records handed to Expense.create
    store,        \* the records the collection holds
    response,     \* the response of the handler
    vision,       \* how the call to the vision service ended
    storage,      \* how Expense.create ended
    geminiApiKey, \* process.env.GEMINI_API_KEY
    fetches,      \* the number of requests sent to the vision service
    base64ImageData, \* what POST passes to analyzeReceiptWithGemini, sent as inline_data.data
    cached,       \* global.mongoose of lib/mongodb.ts: conn and promise (0 is null)
    promises,     \* the promises mongoose.connect returned, in order: how each stands
    callers,      \* the calls of dbConnect: where each stands, what it awaits, what it got
    reqs,         \* POST requests under way at once: where each stands and what it holds
    page          \* the scanner page: its React state and where handleSubmit stands

\* the state of one POST request
postVars == <<pc, body, emitted, responseText, tier, extractedData, created, store,
              response, vision, storage, geminiApiKey, fetches, base64ImageData>>

\* the state of lib/mongodb.ts
dbVars == <<cached, promises, callers>>

\* the state of one POST request but for the collection
postButStore == <<pc, body, emitted, responseText, tier, extractedData, created,
                  response, vision, storage, geminiApiKey, fetches, base64ImageData>>

\* the state one POST request does not touch, and the state dbConnect does not
outsidePost == <<dbVars, reqs, page>>
outsideDb == <<postVars, reqs, page>>

vars == <<postVars, outsidePost>>

----------------------------------------------------------------------------
(* JavaScript values *)

Undef == [t |-> "undefined"]
Null == [t |-> "null"]
NaN == [t |-> "NaN"]
Num(n) == [t |-> "number", n |-> n]
Str(s) == [t |-> "string", s |-> s]
Bool(b) == [t |-> "boolean", b |-> b]
Arr(a) == [t |-> "array", a |-> a]
Obj(o) == [t |-> "object", o |-> o]
DateV(d) == [t |-> "date", d |-> d]

InvalidDate == DateV("Invalid Date")

\* the empty object: a function with no key
NoKeys == [k \in {} |-> Undef]

\* v.k for a value v that is neither null nor undefined
Get(v, k) ==
    IF v.t = "object" /\ k \in DOMAIN v.o THEN v.o[k] ELSE Undef

\* ToBoolean, as used by ||, ?: and !
Truthy(v) ==
    CASE v.t = "undefined" -> FALSE
      [] v.t = "null" -> FALSE
      [] v.t = "NaN" -> FALSE
      [] v.t = "number" -> v.n # 0
      [] v.t = "string" -> Len(v.s) > 0
      [] v.t = "boolean" -> v.b
      [] OTHER -> TRUE

\* a || b
Or(a, b) == IF Truthy(a) THEN a ELSE b

----------------------------------------------------------------------------
(* Characters *)

\* the i-th character of s, the empty string past its ends
Ch(s, i) == IF 1 <= i /\ i <= Len(s) THEN SubSeq(s, i, i) ELSE ""

Digits == {"0", "1", "2", "3", "4", "5", "6", "7", "8", "9"}

DigitVal(c) ==
    CASE c = "0" -> 0 [] c = "1" -> 1 [] c = "2" -> 2 [] c = "3" -> 3
      [] c = "4" -> 4 [] c = "5" -> 5 [] c = "6" -> 6 [] c = "7" -> 7
      [] c = "8" -> 8 [] c = "9" -> 9

\* the characters \s matches and trim() removes, among those of the model's texts
WhiteSpace == {" ", "\t", "\n", "\r"}

\* the characters . does not match
LineTerminators == {"\n", "\r"}

LowerCh(c) ==
    CASE c = "A" -> "a" [] c = "B" -> "b" [] c = "C" -> "c" [] c = "D" -> "d"
      [] c = "E" -> "e" [] c = "F" -> "f" [] c = "G" -> "g" [] c = "H" -> "h"
      [] c = "I" -> "i" [] c = "J" -> "j" [] c = "K" -> "k" [] c = "L" -> "l"
      [] c = "M" -> "m" [] c = "N" -> "n" [] c = "O" -> "o" [] c = "P" -> "p"
      [] c = "Q" -> "q" [] c = "R" -> "r" [] c = "S" -> "s" [] c = "T" -> "t"
      [] c = "U" -> "u" [] c = "V" -> "v" [] c = "W" -> "w" [] c = "X" -> "x"
      [] c = "Y" -> "y" [] c = "Z" -> "z" [] OTHER -> c

\* a value computed once, as a const binding is: the element of a one-element set
The(S) == CHOOSE x \in S : TRUE

\* the positions of s that hold character c
Positions(s, c) == {p \in 1..Len(s) : Ch(s, p) = c}

Least(S) == CHOOSE x \in S : \A y \in S : x <= y
Greatest(S) == CHOOSE x \in S : \A y \in S : y <= x

\* the end of the longest run of characters of set cs that starts at p (p - 1 when empty)
RECURSIVE RunEnd(_, _, _)
RunEnd(s, p, cs) ==
    IF p <= Len(s) /\ Ch(s, p) \in cs THEN RunEnd(s, p + 1, cs) ELSE p - 1

\* the first position at or after p that holds no white space
SkipWs(s, p) == RunEnd(s, p, WhiteSpace) + 1

\* the digits s[p..q] read as a natural number
RECURSIVE DigitsValue(_, _, _)
DigitsValue(s, p, q) ==
    IF q < p THEN 0 ELSE DigitsValue(s, p, q - 1) * 10 + DigitVal(Ch(s, q))

\* hundredths carried by the fraction digits s[p..q]
FractionValue(s, p, q) ==
    (IF p <= q THEN DigitVal(Ch(s, p)) * 10 ELSE 0)
    + (IF p + 1 <= q THEN DigitVal(Ch(s, p + 1)) ELSE 0)

\* String.prototype.trim
Trim(s) ==
    The({IF kept = {} THEN "" ELSE SubSeq(s, Least(kept), Greatest(kept)) :
            kept \in {{q \in 1..Len(s) : Ch(s, q) \notin WhiteSpace}}})

\* the decimal literal of s whose digits start at i0: digits and a fraction, the
\* longest there is, NaN when there is neither a digit nor a fraction digit
DecimalAt(s, i0, neg) ==
    The({The({IF i1 >= i0 \/ f1 >= i1 + 2
              THEN Num((IF neg THEN -1 ELSE 1)
                       * (DigitsValue(s, i0, i1) * 100 + FractionValue(s, i1 + 2, f1)))
              ELSE NaN :
                 f1 \in {IF Ch(s, i1 + 1) = "." THEN RunEnd(s, i1 + 2, Digits) ELSE i1}}) :
            i1 \in {RunEnd(s, i0, Digits)}})

\* parseFloat of a string: leading white space, a sign, then the longest prefix
\* that is a decimal literal
ParseFloatStr(s) ==
    The({DecimalAt(s, IF Ch(s, a) \in {"-", "+"} THEN a + 1 ELSE a, Ch(s, a) = "-") :
            a \in {RunEnd(s, 1, WhiteSpace) + 1}})

\* parseFloat(v): v is converted to a string first
RECURSIVE ParseFloat(_)
ParseFloat(v) ==
    CASE v.t = "number" -> v
      [] v.t = "string" -> ParseFloatStr(v.s)
      [] v.t = "array" -> IF Len(v.a) = 0 THEN NaN
                          ELSE IF v.a[1].t \in {"null", "undefined"} THEN NaN
                          ELSE ParseFloat(v.a[1])
      [] OTHER -> NaN

\* Math.max(a, b), Math.min(a, b) on numbers
MathMax(a, b) == IF a.t = "NaN" \/ b.t = "NaN" THEN NaN ELSE IF a.n >= b.n THEN a ELSE b
MathMin(a, b) == IF a.t = "NaN" \/ b.t = "NaN" THEN NaN ELSE IF a.n <= b.n THEN a ELSE b

----------------------------------------------------------------------------
(* JSON.parse: objects, arrays, strings, numbers, true, false and null as  *)
(* the answers write them: no escape in a string, no exponent in a number. *)
(* A result is Fail (a SyntaxError) or Ok(v).  The text is scanned once    *)
(* for its quotes and for the brackets and commas outside of strings; a    *)
(* value is then decoded from the part of the text it occupies.            *)

Fail == [ok |-> FALSE]
Ok(v) == [ok |-> TRUE, v |-> v]

\* position p lies in a string literal or closes one, Q being the quotes of the text
InString(Q, p) == Cardinality({q \in Q : q < p}) % 2 = 1

\* the text with its quotes and its brackets and commas outside of strings
Scan(s) ==
    The({[s |-> s,
          quotes |-> Q,
          opens |-> {p \in Positions(s, "{") \cup Positions(s, "[") : ~InString(Q, p)},
          closes |-> {p \in Positions(s, "}") \cup Positions(s, "]") : ~InString(Q, p)},
          commas |-> {p \in Positions(s, ",") : ~InString(Q, p)}] :
            Q \in {Positions(s, "\"")}})

\* the brackets opened and not closed before position p
Depth(sc, p) ==
    Cardinality({o \in sc.opens : o < p}) - Cardinality({c \in sc.closes : c < p})

\* the bracket that closes the one at p, 0 when there is none
Closer(sc, p) ==
    The({IF cs = {} THEN 0 ELSE Least(cs) :
            cs \in {{c \in sc.closes : c > p /\ Depth(sc, c) = Depth(sc, p) + 1}}})

\* the commas that separate the parts of the brackets a..b
Separators(sc, a, b) ==
    {c \in sc.commas : a < c /\ c < b /\ Depth(sc, c) = Depth(sc, a) + 1}

\* the first positions of the parts, and the last position of the part that starts at st
PartStarts(seps, a) == {a + 1} \cup {c + 1 : c \in seps}
PartEnd(seps, b, st) == Least({c \in seps \cup {b} : c >= st}) - 1

\* the last position of a..b that holds no white space, a - 1 when there is none
LastInk(s, a, b) == Greatest({a - 1} \cup {q \in a..b : Ch(s, q) \notin WhiteSpace})

\* a string literal that occupies a..b, a holding its opening quote
JsonString(sc, a, b) ==
    IF /\ b > a
       /\ Ch(sc.s, b) = "\""
       /\ \A i \in (a + 1)..(b - 1) : Ch(sc.s, i) \notin {"\"", "\\", "\n", "\r", "\t"}
    THEN Ok(Str(SubSeq(sc.s, a + 1, b - 1)))
    ELSE Fail

\* a number literal that occupies i0..b after its sign: no leading zero, no empty fraction
JsonDigits(s, i0, b, neg) ==
    The({The({IF i1 < i0 \/ (Ch(s, i0) = "0" /\ i1 > i0)
                 \/ (Ch(s, i1 + 1) = "." /\ f1 < i1 + 2)
                 \/ f1 # b
              THEN Fail
              ELSE Ok(Num((IF neg THEN -1 ELSE 1)
                          * (DigitsValue(s, i0, i1) * 100 + FractionValue(s, i1 + 2, f1)))) :
                 f1 \in {IF Ch(s, i1 + 1) = "." THEN RunEnd(s, i1 + 2, Digits) ELSE i1}}) :
            i1 \in {RunEnd(s, i0, Digits)}})

\* a number literal that occupies a..b
JsonNumber(s, a, b) ==
    JsonDigits(s, IF Ch(s, a) = "-" THEN a + 1 ELSE a, b, Ch(s, a) = "-")

RECURSIVE JsonValue(_, _, _)

\* the member of an object in a..b: a key, a colon and a value
JsonMember(sc, a, b) ==
    The({The({The({
        IF k0 > b \/ Ch(sc.s, k0) # "\"" \/ k1 > b \/ col > b \/ Ch(sc.s, col) # ":"
        THEN Fail
        ELSE The({IF key.ok /\ val.ok
                  THEN [ok |-> TRUE, at |-> a, key |-> key.v.s, v |-> val.v]
                  ELSE Fail :
                     key \in {JsonString(sc, k0, k1)}, val \in {JsonValue(sc, col + 1, b)}}) :
                col \in {SkipWs(sc.s, k1 + 1)}}) :
            k1 \in {Least({q \in sc.quotes \cup {k0 + Len(sc.s) + 1} : q > k0})}}) :
        k0 \in {SkipWs(sc.s, a)}})

\* the object whose braces are at a and b; a repeated key keeps its last value
JsonObject(sc, a, b) ==
    IF SkipWs(sc.s, a + 1) = b THEN Ok(Obj(NoKeys))
    ELSE The({The({
        IF \E r \in R : ~r.ok THEN Fail
        ELSE Ok(Obj([k \in {r.key : r \in R} |->
                        (CHOOSE r \in R : r.key = k /\ \A o \in R : o.key = k => o.at <= r.at).v])) :
                R \in {{JsonMember(sc, st, PartEnd(seps, b, st)) : st \in PartStarts(seps, a)}}}) :
            seps \in {Separators(sc, a, b)}})

\* the array whose brackets are at a and b
JsonArray(sc, a, b) ==
    IF SkipWs(sc.s, a + 1) = b THEN Ok(Arr(<<>>))
    ELSE The({The({
        IF \E r \in R : ~r.val.ok THEN Fail
        ELSE Ok(Arr([i \in 1..Cardinality(R) |->
                        (CHOOSE r \in R : Cardinality({o \in R : o.at < r.at}) = i - 1).val.v])) :
                R \in {{[at |-> st, val |-> JsonValue(sc, st, PartEnd(seps, b, st))] :
                          st \in PartStarts(seps, a)}}}) :
            seps \in {Separators(sc, a, b)}})

\* the value that occupies a..b, white space around it
JsonValue(sc, a, b) ==
    The({IF p > q THEN Fail
         ELSE CASE Ch(sc.s, p) = "{" ->
                     IF Ch(sc.s, q) = "}" /\ Closer(sc, p) = q THEN JsonObject(sc, p, q) ELSE Fail
                [] Ch(sc.s, p) = "[" ->
                     IF Ch(sc.s, q) = "]" /\ Closer(sc, p) = q THEN JsonArray(sc, p, q) ELSE Fail
                [] Ch(sc.s, p) = "\"" ->
                     IF \A c \in sc.quotes : c > p => c >= q THEN JsonString(sc, p, q) ELSE Fail
                [] Ch(sc.s, p) \in Digits \cup {"-"} -> JsonNumber(sc.s, p, q)
                [] SubSeq(sc.s, p, q) = "true" -> Ok(Bool(TRUE))
                [] SubSeq(sc.s, p, q) = "false" -> Ok(Bool(FALSE))
                [] SubSeq(sc.s, p, q) = "null" -> Ok(Null)
                [] OTHER -> Fail :
            p \in {SkipWs(sc.s, a)}, q \in {LastInk(sc.s, a, b)}})

\* JSON.parse(s): the whole of s is one value
JSONparse(s) == The({JsonValue(sc, 1, Len(s)) : sc \in {Scan(s)}})

----------------------------------------------------------------------------
(* The regular expressions of analyzeReceiptWithGemini.  A match is        *)
(* [found |-> FALSE] or [found |-> TRUE, g |-> the text of the match or of *)
(* its capture group].                                                     *)

NoMatch == [found |-> FALSE]
Match(g) == [found |-> TRUE, g |-> g]

\* responseText.match(/\{[\s\S]*\}/): from the first { to the last }
jsonMatch(text) ==
    The({IF opens # {} /\ closes # {} /\ Greatest(closes) > Least(opens)
         THEN Match(SubSeq(text, Least(opens), Greatest(closes)))
         ELSE NoMatch :
            opens \in {Positions(text, "{")}, closes \in {Positions(text, "}")}})

\* the literal word matches at p letter for letter (the pattern without flag i)
WordAtCaseSensitive(text, p, word) ==
    /\ p >= 1
    /\ p + Len(word) - 1 <= Len(text)
    /\ \A k \in 1..Len(word) : Ch(text, p + k - 1) = Ch(word, k)

\* the literal word (lower case) matches at p, letter case ignored (flag i)
WordAt(text, p, word) ==
    /\ p >= 1
    /\ p + Len(word) - 1 <= Len(text)
    /\ \A k \in 1..Len(word) : LowerCh(Ch(text, p + k - 1)) = Ch(word, k)

\* the last position of the line that holds position p
LineEnd(s, p) ==
    Least({e \in p..Len(s) : e = Len(s) \/ Ch(s, e + 1) \in LineTerminators})

\* \s*(.+) at q: \s* takes the longest run of white space that leaves (.+) a
\* character other than a line terminator, and (.+) runs to the end of that line
RestCapture(text, q) ==
    The({IF starts = {} THEN NoMatch
         ELSE Match(SubSeq(text, Greatest(starts), LineEnd(text, Greatest(starts)))) :
            starts \in {{k \in q..(RunEnd(text, q, WhiteSpace) + 1) :
                            k <= Len(text) /\ Ch(text, k) \notin LineTerminators}}})

\* \s*([0-9.]+) at q
AmountCapture(text, q) ==
    The({The({IF r >= w + 1 THEN Match(SubSeq(text, w + 1, r)) ELSE NoMatch :
                 r \in {RunEnd(text, w + 1, Digits \cup {"."})}}) :
            w \in {RunEnd(text, q, WhiteSpace)}})

Capture(text, q, amount) ==
    IF amount THEN AmountCapture(text, q) ELSE RestCapture(text, q)

\* String.prototype.match without the g flag: the leftmost match.  Every word
\* ends with its colon, so the matches are found at the colons of the text, and
\* the match that starts first is the one whose colon comes first.
Search(text, words, amount) ==
    The({IF hits = {} THEN NoMatch ELSE Capture(text, Least(hits) + 1, amount) :
            hits \in {{c \in Positions(text, ":") :
                          /\ \E w \in words : WordAt(text, c - Len(w) + 1, w)
                          /\ Capture(text, c + 1, amount).found}}})

\* responseText.match(/(?:vendor|store):\s*(.+)/i)
vendorMatch(text) == Search(text, {"vendor:", "store:"}, FALSE)

\* responseText.match(/date:\s*(.+)/i)
dateMatch(text) == Search(text, {"date:"}, FALSE)

\* responseText.match(/total:\s*([0-9.]+)/i)
totalMatch(text) == Search(text, {"total:"}, TRUE)

----------------------------------------------------------------------------
(* The enumerations of the Expense model *)

ExpenseCategory ==
    {"Food & Dining", "Groceries", "Transportation", "Utilities", "Entertainment",
     "Healthcare", "Shopping", "Travel", "Education", "Business",
     "Home & Maintenance", "Subscriptions", "Insurance", "Taxes",
     "Gifts & Donations", "Personal Care", "Other"}

PaymentMethod ==
    {"Cash", "Credit Card", "Debit Card", "Bank Transfer", "Digital Wallet", "Check",
     "Other"}

ExpenseType == {"Personal", "Business", "Tax Deductible"}

\* Object.values(E).includes(v): strict equality with one of the labels
Includes(E, v) == v.t = "string" /\ v.s \in E

----------------------------------------------------------------------------
(* analyzeReceiptWithGemini, from the response text on *)

\* new Date().toISOString().split('T')[0]
Today == "2026-11-02"

\* the callback of parsedData.lineItems.map
MapLineItem(item) ==
    Obj([name |-> Or(Get(item, "name"), Str("Unknown Item")),
         quantity |-> Or(ParseFloat(Get(item, "quantity")), Num(100)),
         unitPrice |-> Or(ParseFloat(Get(item, "unitPrice")), Num(0)),
         totalPrice |-> Or(ParseFloat(Get(item, "totalPrice")), Num(0))])

\* item.name raises a TypeError when item is null
LineItemsThrow(parsedData) ==
    LET li == Get(parsedData, "lineItems")
    IN  li.t = "array" /\ \E i \in 1..Len(li.a) : li.a[i].t \in {"null", "undefined"}

\* tip and discount: x ? parseFloat(x) : undefined
OptionalAmount(x) == IF Truthy(x) THEN ParseFloat(x) ELSE Undef

\* an amount written as tip and discount are: a zero is dropped
AmountIfTruthy(x) == IF Truthy(x) THEN ParseFloat(x) ELSE Undef

\* subtotal, tax and total: parseFloat(x) || 0
Amount(x) == Or(ParseFloat(x), Num(0))

\* the confidence without Math.min and Math.max
ConfidenceUnclamped(c) == Or(ParseFloat(c), Num(50))

\* Math.min(Math.max(parseFloat(c) || 0.5, 0), 1)
Confidence(c) == MathMin(MathMax(Or(ParseFloat(c), Num(50)), Num(0)), Num(100))

\* the value when there is one, as the manual branch writes it: v || Other
KeepOrOther(E, v) == Or(v, Str("Other"))

\* category and paymentMethod: the value when it is a label, Other when not
EnumOrOther(E, v) == IF Includes(E, v) THEN v ELSE Str("Other")

\* rawText written with ?? in place of ||: an empty text is kept
Tier1RawTextNullish(parsedData, text) ==
    IF Get(parsedData, "rawText").t \in {"undefined", "null"}
    THEN Str(text)
    ELSE Get(parsedData, "rawText")

\* rawText: parsedData.rawText || responseText
Tier1RawText(parsedData, text) == Or(Get(parsedData, "rawText"), Str(text))

\* the object literal of the first return statement
Tier1Record(parsedData, text) ==
    LET li == Get(parsedData, "lineItems")
    IN  Obj([vendor |-> Or(Get(parsedData, "vendor"), Str("Unknown Vendor")),
             vendorAddress |-> Or(Get(parsedData, "vendorAddress"), Undef),
             vendorPhone |-> Or(Get(parsedData, "vendorPhone"), Undef),
             date |-> Or(Get(parsedData, "date"), Str(Today)),
             receiptNumber |-> Or(Get(parsedData, "receiptNumber"), Undef),
             subtotal |-> Amount(Get(parsedData, "subtotal")),
             tax |-> Amount(Get(parsedData, "tax")),
             tip |-> OptionalAmount(Get(parsedData, "tip")),
             discount |-> OptionalAmount(Get(parsedData, "discount")),
             total |-> Amount(Get(parsedData, "total")),
             currency |-> Or(Get(parsedData, "currency"), Str("USD")),
             category |-> EnumOrOther(ExpenseCategory, Get(parsedData, "category")),
             paymentMethod |-> EnumOrOther(PaymentMethod, Get(parsedData, "paymentMethod")),
             lineItems |-> IF li.t = "array"
                           THEN Arr([i \in 1..Len(li.a) |-> MapLineItem(li.a[i])])
                           ELSE Arr(<<>>),
             rawText |-> Tier1RawText(parsedData, text),
             confidence |-> Confidence(Get(parsedData, "confidence"))])

\* the object literal of the second return statement
Tier2Record(text) ==
    The({Obj([vendor |-> IF vm.found THEN Str(Trim(vm.g)) ELSE Str("Unknown Vendor"),
              date |-> IF dm.found THEN Str(Trim(dm.g)) ELSE Str(Today),
              subtotal |-> Num(0),
              tax |-> Num(0),
              total |-> IF tm.found THEN ParseFloatStr(tm.g) ELSE Num(0),
              currency |-> Str("USD"),
              category |-> Str("Other"),
              paymentMethod |-> Str("Other"),
              lineItems |-> Arr(<<>>),
              rawText |-> Str(text),
              confidence |-> Num(30)]) :
            vm \in {vendorMatch(text)}, dm \in {dateMatch(text)}, tm \in {totalMatch(text)}})

\* the try block: the record it returns, or nothing when there is no match,
\* JSON.parse throws or the object literal throws; the catch block only logs
TryTier1(text) ==
    The({The({IF parsed.ok /\ ~LineItemsThrow(parsed.v)
              THEN [returns |-> TRUE, data |-> Tier1Record(parsed.v, text)]
              ELSE [returns |-> FALSE] :
                 parsed \in {IF m.found THEN JSONparse(m.g) ELSE Fail}}) :
            m \in {jsonMatch(text)}})

analyzeReceiptWithGemini(text) ==
    The({IF t1.returns
         THEN [tier |-> "tier1", data |-> t1.data]
         ELSE [tier |-> "tier2", data |-> Tier2Record(text)] :
            t1 \in {TryTier1(text)}})

----------------------------------------------------------------------------
(* What the vision model emits.  An answer is a sequence of pieces, one    *)
(* per line: a labelled line "LABEL: value", a line of plain text, or the  *)
(* text of a JSON object, written from members that pair the literal text  *)
(* of a value with the value it denotes.                                   *)

\* at most this many members of a sample object differ from its template
MaxOverride == 1
\* at most this many lines in an answer made of labelled lines
MaxLines == 3
\* the most requests to the vision service a run counts
MaxFetches == 3

SStr(s) == [lit |-> "\"" \o s \o "\"", val |-> Str(s)]
SNum(lit, n) == [lit |-> lit, val |-> Num(n)]
SNull == [lit |-> "null", val |-> Null]
SLit(lit, v) == [lit |-> lit, val |-> v]
\* marks a key the object does not have
Absent == [lit |-> "", val |-> Undef]

MilkItem ==
    SLit("{\"name\":\"Milk\",\"quantity\":2,\"unitPrice\":1.5,\"totalPrice\":3}",
         Obj([name |-> Str("Milk"), quantity |-> Num(200), unitPrice |-> Num(150),
              totalPrice |-> Num(300)]))
OddItem ==
    SLit("{\"name\":\"\",\"quantity\":\"x\",\"unitPrice\":-1}",
         Obj([name |-> Str(""), quantity |-> Str("x"), unitPrice |-> Num(-100)]))
RefundItem ==
    SLit("{\"name\":\"Refund\",\"quantity\":-2,\"unitPrice\":0}",
         Obj([name |-> Str("Refund"), quantity |-> Num(-200), unitPrice |-> Num(0)]))
SArr1(e) == [lit |-> "[" \o e.lit \o "]", val |-> Arr(<<e.val>>)]
SArr2(e, f) == [lit |-> "[" \o e.lit \o "," \o f.lit \o "]", val |-> Arr(<<e.val, f.val>>)]
SEmptyArr == [lit |-> "[]", val |-> Arr(<<>>)]

TextKeys == {"vendor", "vendorAddress", "vendorPhone", "receiptNumber", "currency"}
AmountKeys == {"subtotal", "tax", "tip", "discount", "total"}

\* the keys the prompt asks for, in the order of the prompt
KeyOrder ==
    <<"vendor", "vendorAddress", "vendorPhone", "date", "receiptNumber", "subtotal",
      "tax", "tip", "discount", "total", "currency", "category", "paymentMethod",
      "lineItems", "rawText", "confidence">>
Keys == {KeyOrder[i] : i \in 1..Len(KeyOrder)}

\* the values a key of a sample object takes
SamplesOf(k) ==
    CASE k \in TextKeys -> {SStr("Joe's Deli"), SStr(""), SNull}
      [] k = "date" -> {SStr("2024-02-14"), SStr("soon"), SStr(""), SNull}
      [] k \in AmountKeys ->
           {SNum("7.25", 725), SStr("7.25"), SNum("0", 0), SStr("0"), SNum("-5", -500),
            SStr("-5"), SStr("abc"), SNull}
      [] k = "category" -> {SStr("Travel"), SStr("Bogus"), SStr("food & dining"), SNull}
      [] k = "paymentMethod" -> {SStr("Check"), SStr("Bogus"), SStr("cash"), SNum("3", 300)}
      [] k = "lineItems" ->
           {SEmptyArr, SArr1(MilkItem), SArr2(MilkItem, OddItem), SArr1(RefundItem),
            SArr1(SNull),
            SArr2(SNum("5", 500), SStr("x")), SStr("abc"), SNull}
      [] k = "rawText" -> {SStr("MILK 3.00"), SStr(""), SNull}
      [] k = "confidence" ->
           {SNum("1.7", 170), SNum("-0.2", -20), SNum("0", 0), SNum("0.85", 85),
            SStr("0.9"), SStr("abc"), SNull}

\* an answer as the prompt asks for it, without the optional keys
FullMembers ==
    [k \in {"vendor", "date", "subtotal", "tax", "total", "category", "paymentMethod",
            "lineItems", "confidence"} |->
        CASE k = "vendor" -> SStr("Acme")
          [] k = "date" -> SStr("2024-03-01")
          [] k = "subtotal" -> SNum("18.49", 1849)
          [] k = "tax" -> SNum("1.5", 150)
          [] k = "total" -> SNum("19.99", 1999)
          [] k = "category" -> SStr("Groceries")
          [] k = "paymentMethod" -> SStr("Cash")
          [] k = "lineItems" -> SArr1(MilkItem)
          [] k = "confidence" -> SNum("0.9", 90)]

EmptyMembers == [k \in {} |-> Absent]

\* members m with key k set to sample x, or removed
SetMember(m, k, x) ==
    IF x = Absent THEN [j \in DOMAIN m \ {k} |-> m[j]]
    ELSE [j \in DOMAIN m \cup {k} |-> IF j = k THEN x ELSE m[j]]

\* the member sets within n overrides of the set M
RECURSIVE Overrides(_, _)
Overrides(M, n) ==
    IF n = 0 THEN M
    ELSE Overrides(M \cup {SetMember(m, k, x) :
                              m \in M, <<k, x>> \in UNION {{<<j, y>> : y \in SamplesOf(j) \cup {Absent}} : j \in Keys}},
                   n - 1)

JsonPiece(m) == [k |-> "json", m |-> m]
Labelled(label, value) == [k |-> "line", label |-> label, value |-> value]
\* a labelled line whose value is the decimal text of the amount n
Priced(label, lit, n) == [k |-> "line", label |-> label, value |-> lit, n |-> n]
Plain(s) == [k |-> "text", s |-> s]

\* one-object answers
ObjectAnswers == {<<JsonPiece(m)>> : m \in Overrides({EmptyMembers, FullMembers}, MaxOverride)}

\* the lines of answers that mix labelled lines, stray braces and objects
SampleLines ==
    {Labelled("VENDOR", "Joe's Deli"), Labelled("Store", "Acme"),
     Labelled("DATE", "2024-03-01"), Labelled("Date", "soon"),
     Priced("TOTAL", "12.50", 1250), Priced("Subtotal", "10.00", 1000),
     Plain("{2 items}"),
     JsonPiece([vendor |-> SStr("Acme")])}

RECURSIVE SeqsUpTo(_, _)
\* the sequences over S of length at most n
SeqsUpTo(S, n) ==
    IF n = 0 THEN {<<>>}
    ELSE The({shorter \cup {Append(q, x) : q \in shorter, x \in S} :
                 shorter \in {SeqsUpTo(S, n - 1)}})

MixedAnswers == SeqsUpTo(SampleLines, MaxLines)

Answers == ObjectAnswers \cup MixedAnswers

\* the texts seq[lo..hi] one after the other
RECURSIVE Concat(_, _, _)
Concat(seq, lo, hi) ==
    IF lo > hi THEN ""
    ELSE IF lo = hi THEN seq[lo]
    ELSE Concat(seq, lo, (lo + hi) \div 2) \o Concat(seq, (lo + hi) \div 2 + 1, hi)

\* the text of the members of an object, in the order of KeyOrder
RenderMembers(m) ==
    The({Concat([i \in 1..Len(ks) |->
                    (IF i = 1 THEN "" ELSE ",") \o "\"" \o ks[i] \o "\":" \o m[ks[i]].lit],
                1, Len(ks)) :
            ks \in {SelectSeq(KeyOrder, LAMBDA k : k \in DOMAIN m)}})

RenderPiece(piece) ==
    CASE piece.k = "json" -> "{" \o RenderMembers(piece.m) \o "}"
      [] piece.k = "line" -> piece.label \o ": " \o piece.value
      [] piece.k = "text" -> piece.s

\* the text of an answer: its pieces, one per line
RenderAnswer(a) ==
    Concat([i \in 1..Len(a) |-> (IF i = 1 THEN "" ELSE "\n") \o RenderPiece(a[i])], 1, Len(a))

\* the object a json piece denotes
Denoted(piece) == Obj([k \in DOMAIN piece.m |-> piece.m[k].val])

----------------------------------------------------------------------------
(* Request bodies *)

\* the image payload of a scan request: a data URL
ImageUrl == "data:image/jpeg;base64,QUJD"

ManualTextKeys ==
    {"vendorAddress", "vendorPhone", "receiptNumber", "notes", "description",
     "recurringFrequency", "imageUrl", "projectId", "clientId"}
FlagKeys == {"isRecurring", "isBusinessExpense", "isTaxDeductible"}

\* the keys of a manual body
ManualKeys ==
    {"vendor", "date", "subtotal", "tax", "tip", "discount", "total", "currency",
     "category", "paymentMethod", "expenseType", "lineItems", "tags", "rawText",
     "confidence"} \cup ManualTextKeys \cup FlagKeys

\* the values a key of a sample body takes; Undef removes the key
BodySamplesOf(k) ==
    CASE k \in {"vendor", "currency", "rawText"} \cup ManualTextKeys ->
           {Str("Joe's Deli"), Str(""), Undef}
      [] k = "date" -> {Str("2024-02-14"), Str("soon"), Null, Undef}
      [] k \in AmountKeys ->
           {Num(725), Str("7.25"), Num(0), Num(-500), Str("-5"), Str("abc"), Undef}
      [] k = "category" -> {Str("Travel"), Str("Bogus"), Str("food & dining"), Undef}
      [] k = "paymentMethod" -> {Str("Check"), Str("Bogus"), Str("cash"), Undef}
      [] k = "expenseType" -> {Str("Personal"), Str("Tax Deductible"), Str("Bogus"), Undef}
      [] k = "lineItems" ->
           {Arr(<<>>), Arr(<<MilkItem.val, MilkItem.val>>), Arr(<<OddItem.val>>),
            Arr(<<Null>>), Str("abc"), Undef}
      [] k = "tags" -> {Arr(<<>>), Arr(<<Str("a"), Str("b")>>), Undef}
      [] k = "confidence" -> {Num(0), Num(100), Num(170), Undef}
      [] k \in FlagKeys -> {Bool(FALSE), Undef}

\* a manual body with every field present and valid
FullBody ==
    [k \in ManualKeys \cup {"manual"} |->
        CASE k = "manual" -> Bool(TRUE)
          [] k = "vendor" -> Str("Acme")
          [] k = "date" -> Str("2024-03-01")
          [] k = "subtotal" -> Num(1849)
          [] k = "tax" -> Num(150)
          [] k = "tip" -> Num(200)
          [] k = "discount" -> Num(200)
          [] k = "total" -> Num(1999)
          [] k = "currency" -> Str("EUR")
          [] k = "category" -> Str("Groceries")
          [] k = "paymentMethod" -> Str("Cash")
          [] k = "expenseType" -> Str("Business")
          [] k = "lineItems" -> Arr(<<MilkItem.val>>)
          [] k = "tags" -> Arr(<<Str("food")>>)
          [] k = "rawText" -> Str("ACME MILK 19.99")
          [] k = "confidence" -> Num(80)
          [] k = "vendorAddress" -> Str("1 Main St")
          [] k = "vendorPhone" -> Str("555-0100")
          [] k = "receiptNumber" -> Str("R-17")
          [] k = "notes" -> Str("weekly shop")
          [] k = "description" -> Str("milk")
          [] k = "recurringFrequency" -> Str("weekly")
          [] k = "imageUrl" -> Str(ImageUrl)
          [] k = "projectId" -> Str("P-1")
          [] k = "clientId" -> Str("C-1")
          [] k \in FlagKeys -> Bool(TRUE)]

\* a manual body with nothing but the flag
BareBody == [k \in {"manual"} |-> Bool(TRUE)]

\* object o with key k set to v, or removed
SetKey(o, k, v) ==
    IF v = Undef THEN [j \in DOMAIN o \ {k} |-> o[j]]
    ELSE [j \in DOMAIN o \cup {k} |-> IF j = k THEN v ELSE o[j]]

RECURSIVE BodyOverrides(_, _)
BodyOverrides(B, n) ==
    IF n = 0 THEN B
    ELSE BodyOverrides(B \cup {SetKey(o, k, v) :
                                  o \in B, <<k, v>> \in UNION {{<<j, y>> : y \in BodySamplesOf(j)} : j \in ManualKeys}},
                       n - 1)

ManualBodies == {Obj(o) : o \in BodyOverrides({FullBody, BareBody}, MaxOverride)}

\* bodies without manual: true; among their payloads one without a prefix
\* and one with a comma in its prefix
ScanBodies ==
    {Obj([imageUrl |-> Str(ImageUrl)]),
     Obj(NoKeys),
     Obj([imageUrl |-> Str("")]),
     Obj([imageUrl |-> Num(500)]),
     Obj([imageUrl |-> Str("QUJD")]),
     Obj([manual |-> Bool(FALSE), vendor |-> Str("Acme")]),
     Obj([manual |-> Str("true"), imageUrl |-> Str("data:image/jpeg;name=a,b;base64,QUJD")])}

Bodies == ManualBodies \cup ScanBodies

----------------------------------------------------------------------------
(* Dates *)

\* new Date()
Now == DateV("2026-11-02")

\* s is a calendar date written YYYY-MM-DD
IsIsoDate(s) ==
    /\ Len(s) = 10
    /\ \A i \in {1, 2, 3, 4, 6, 7, 9, 10} : Ch(s, i) \in Digits
    /\ Ch(s, 5) = "-" /\ Ch(s, 8) = "-"
    /\ DigitsValue(s, 6, 7) \in 1..12
    /\ DigitsValue(s, 9, 10) \in 1..28

\* new Date(v): the texts of the model are dates written YYYY-MM-DD (days 1 to
\* 28) or carry no digit at all, and those are not dates
NewDate(v) ==
    CASE v.t = "string" -> IF IsIsoDate(v.s) THEN DateV(v.s) ELSE InvalidDate
      [] v.t = "null" -> DateV("1970-01-01")
      [] v.t = "number" -> DateV("1970-01-01")
      [] v.t = "boolean" -> DateV("1970-01-01")
      [] v.t = "date" -> v
      [] OTHER -> InvalidDate

----------------------------------------------------------------------------
(* ExpenseSchema: what Expense.create accepts.  A path is checked on the   *)
(* value handed to create: cast to the path's type, then the validators.   *)

\* a String path: strings, numbers and booleans cast to a string
StringPathOk(v, required) ==
    CASE v.t \in {"undefined", "null"} -> ~required
      [] v.t = "string" -> required => Len(v.s) > 0
      [] v.t \in {"number", "boolean"} -> TRUE
      [] OTHER -> FALSE

\* a Number path with min (and max, when bounded)
NumberPathOk(v, required, min, bounded, max) ==
    CASE v.t \in {"undefined", "null"} -> ~required
      [] v.t = "number" -> v.n >= min /\ (bounded => v.n <= max)
      [] OTHER -> FALSE

\* a String path with enum: the default fills an undefined value
EnumPathOk(v, E) ==
    CASE v.t = "undefined" -> TRUE
      [] v.t = "string" -> v.s \in E
      [] OTHER -> FALSE

DatePathOk(v) == v.t = "date" /\ v # InvalidDate

BooleanPathOk(v) == v.t \in {"undefined", "null", "boolean"}

\* a number of a line item: required, quantity has default 1, no min
ItemNumberOk(v, hasDefault) ==
    CASE v.t = "undefined" -> hasDefault
      [] v.t = "number" -> TRUE
      [] OTHER -> FALSE

\* LineItemSchema
LineItemOk(item) ==
    /\ item.t = "object"
    /\ StringPathOk(Get(item, "name"), TRUE)
    /\ ItemNumberOk(Get(item, "quantity"), TRUE)
    /\ ItemNumberOk(Get(item, "unitPrice"), FALSE)
    /\ ItemNumberOk(Get(item, "totalPrice"), FALSE)

\* lineItems: [LineItemSchema]; a value that is not an array is cast as a one-item array
LineItemsOk(v) ==
    CASE v.t \in {"undefined", "null"} -> TRUE
      [] v.t = "array" -> \A i \in 1..Len(v.a) : LineItemOk(v.a[i])
      [] OTHER -> LineItemOk(v)

\* tags: [{ type: String }]
TagsOk(v) ==
    CASE v.t \in {"undefined", "null"} -> TRUE
      [] v.t = "array" -> \A i \in 1..Len(v.a) : StringPathOk(v.a[i], FALSE)
      [] OTHER -> StringPathOk(v, FALSE)

\* the document built from doc passes validation
ExpenseSchema(doc) ==
    /\ StringPathOk(Get(doc, "vendor"), TRUE)
    /\ \A k \in ManualTextKeys : StringPathOk(Get(doc, k), FALSE)
    /\ DatePathOk(Get(doc, "date"))
    /\ NumberPathOk(Get(doc, "subtotal"), TRUE, 0, FALSE, 0)
    /\ NumberPathOk(Get(doc, "tax"), FALSE, 0, FALSE, 0)
    /\ NumberPathOk(Get(doc, "tip"), FALSE, 0, FALSE, 0)
    /\ NumberPathOk(Get(doc, "discount"), FALSE, 0, FALSE, 0)
    /\ NumberPathOk(Get(doc, "total"), TRUE, 0, FALSE, 0)
    /\ Get(doc, "currency").t = "undefined" \/ StringPathOk(Get(doc, "currency"), TRUE)
    /\ EnumPathOk(Get(doc, "category"), ExpenseCategory)
    /\ EnumPathOk(Get(doc, "paymentMethod"), PaymentMethod)
    /\ EnumPathOk(Get(doc, "expenseType"), ExpenseType)
    /\ LineItemsOk(Get(doc, "lineItems"))
    /\ TagsOk(Get(doc, "tags"))
    /\ \A k \in FlagKeys : BooleanPathOk(Get(doc, k))
    /\ StringPathOk(Get(doc, "rawText"), TRUE)
    /\ NumberPathOk(Get(doc, "confidence"), FALSE, 0, TRUE, 100)
    /\ Get(doc, "source").t = "string" /\ Get(doc, "source").s \in {"scan", "manual"}

----------------------------------------------------------------------------
(* The POST handler *)

\* the argument of Expense.create on the manual path
ManualRecord(b) ==
    Obj([vendor |-> Or(Get(b, "vendor"), Str("Manual Entry")),
         vendorAddress |-> Or(Get(b, "vendorAddress"), Str("")),
         vendorPhone |-> Or(Get(b, "vendorPhone"), Str("")),
         date |-> NewDate(Get(b, "date")),
         receiptNumber |-> Or(Get(b, "receiptNumber"), Str("")),
         subtotal |-> Amount(Get(b, "subtotal")),
         tax |-> Amount(Get(b, "tax")),
         tip |-> Amount(Get(b, "tip")),
         discount |-> Amount(Get(b, "discount")),
         total |-> Amount(Get(b, "total")),
         currency |-> Or(Get(b, "currency"), Str("USD")),
         category |-> Or(Get(b, "category"), Str("Other")),
         paymentMethod |-> Or(Get(b, "paymentMethod"), Str("Other")),
         expenseType |-> Str("Personal"),
         lineItems |-> Or(Get(b, "lineItems"), Arr(<<>>)),
         notes |-> Or(Get(b, "notes"), Str("")),
         description |-> Or(Get(b, "description"), Str("")),
         tags |-> Or(Get(b, "tags"), Arr(<<>>)),
         isRecurring |-> Or(Get(b, "isRecurring"), Bool(FALSE)),
         recurringFrequency |-> Or(Get(b, "recurringFrequency"), Str("")),
         rawText |-> Or(Get(b, "rawText"), Str("")),
         imageUrl |-> Or(Get(b, "imageUrl"), Str("")),
         confidence |-> Num(100),
         isBusinessExpense |-> Or(Get(b, "isBusinessExpense"), Bool(FALSE)),
         isTaxDeductible |-> Or(Get(b, "isTaxDeductible"), Bool(FALSE)),
         projectId |-> Or(Get(b, "projectId"), Str("")),
         clientId |-> Or(Get(b, "clientId"), Str("")),
         source |-> Str("manual"),
         createdAt |-> Now,
         updatedAt |-> Now])

\* the argument of Expense.create on the scan path
ScanRecord(ed, imageUrl) ==
    Obj([vendor |-> Get(ed, "vendor"),
         vendorAddress |-> Get(ed, "vendorAddress"),
         vendorPhone |-> Get(ed, "vendorPhone"),
         date |-> NewDate(Get(ed, "date")),
         receiptNumber |-> Get(ed, "receiptNumber"),
         subtotal |-> Get(ed, "subtotal"),
         tax |-> Get(ed, "tax"),
         tip |-> Get(ed, "tip"),
         discount |-> Get(ed, "discount"),
         total |-> Get(ed, "total"),
         currency |-> Get(ed, "currency"),
         category |-> Get(ed, "category"),
         paymentMethod |-> Get(ed, "paymentMethod"),
         expenseType |-> Str("Personal"),
         lineItems |-> Get(ed, "lineItems"),
         tags |-> Arr(<<>>),
         isRecurring |-> Bool(FALSE),
         rawText |-> Get(ed, "rawText"),
         imageUrl |-> imageUrl,
         confidence |-> Get(ed, "confidence"),
         isBusinessExpense |-> Bool(FALSE),
         isTaxDeductible |-> Bool(FALSE),
         source |-> Str("scan"),
         createdAt |-> Now,
         updatedAt |-> Now])

NoResponse == [kind |-> "none", status |-> 0, success |-> FALSE, data |-> Null, message |-> ""]
\* NextResponse.json({ success: true, data }, { status })
Success(status, data) ==
    [kind |-> "json", status |-> status, success |-> TRUE, data |-> data, message |-> ""]
\* NextResponse.json({ success: false, message }, { status })
Failure(status, message) ==
    [kind |-> "json", status |-> status, success |-> FALSE, data |-> Null, message |-> message]
\* an exception leaves POST: the framework answers 500 without a body of the route
Unhandled == [kind |-> "unhandled", status |-> 500, success |-> FALSE, data |-> Null, message |-> ""]

\* the document the collection holds for doc
Document(doc, id) == Obj(SetKey(doc.o, "_id", Num(id)))

----------------------------------------------------------------------------
(* lib/mongodb.ts: dbConnect and its cache *)

\* the callers of dbConnect, and the most calls each makes
MaxCallers == 3
MaxCalls == 2
Callers == 1..MaxCallers

\* what mongoose.connect resolves to
Mongoose == [t |-> "mongoose"]

\* a connection is started whenever none is established yet
NoConnYet(c) == c.conn = Null
\* if (!mongooseCache.promise): a connection is started only when none was
NoPromiseYet(c) == c.promise = 0

\* a rejection empties the cache
ClearedAfterRejection(c) == [conn |-> Null, promise |-> 0]
\* the cache after the awaited promise rejected: dbConnect has no catch
AfterRejection(c) == c

\* cached.mongoose = { conn: null, promise: null }, and nobody has called
DbInit ==
    /\ cached = [conn |-> Null, promise |-> 0]
    /\ promises = <<>>
    /\ callers = [c \in Callers |-> [pc |-> "idle", awaits |-> 0, got |-> Undef, calls |-> 0]]

\* caller c calls dbConnect, which runs to its return or to its await
DbCall(c) ==
    /\ callers[c].pc # "await"
    /\ callers[c].calls < MaxCalls
    /\ IF cached.conn # Null
       THEN /\ callers' = [callers EXCEPT ![c] = [pc |-> "returned", awaits |-> 0,
                                                    got |-> cached.conn, calls |-> @.calls + 1]]
            /\ UNCHANGED <<cached, promises>>
       ELSE IF NoPromiseYet(cached)
       THEN /\ promises' = Append(promises, "pending")
            /\ cached' = [cached EXCEPT !.promise = Len(promises) + 1]
            /\ callers' = [callers EXCEPT ![c] = [pc |-> "await", awaits |-> Len(promises) + 1,
                                                    got |-> Undef, calls |-> @.calls + 1]]
       ELSE /\ callers' = [callers EXCEPT ![c] = [pc |-> "await", awaits |-> cached.promise,
                                                    got |-> Undef, calls |-> @.calls + 1]]
            /\ UNCHANGED <<cached, promises>>
    /\ UNCHANGED outsideDb

\* mongoose.connect succeeds: its promise is fulfilled
ConnectResolves ==
    /\ \E i \in 1..Len(promises) :
        /\ promises[i] = "pending"
        /\ promises' = [promises EXCEPT ![i] = "fulfilled"]
    /\ UNCHANGED <<cached, callers, outsideDb>>

\* mongoose.connect fails: its promise is rejected
ConnectRejects ==
    /\ \E i \in 1..Len(promises) :
        /\ promises[i] = "pending"
        /\ promises' = [promises EXCEPT ![i] = "rejected"]
    /\ UNCHANGED <<cached, callers, outsideDb>>

\* the await of caller c ends: conn is set and returned, or the rejection is thrown
DbResume(c) ==
    /\ callers[c].pc = "await"
    /\ promises[callers[c].awaits] # "pending"
    /\ IF promises[callers[c].awaits] = "fulfilled"
       THEN /\ cached' = [cached EXCEPT !.conn = Mongoose]
            /\ callers' = [callers EXCEPT ![c].pc = "returned", ![c].got = Mongoose]
       ELSE /\ cached' = AfterRejection(cached)
            /\ callers' = [callers EXCEPT ![c].pc = "threw"]
    /\ UNCHANGED <<promises, outsideDb>>

----------------------------------------------------------------------------
(* The route *)

\* the values of process.env.GEMINI_API_KEY: not set, set to nothing, set
ApiKeys == {Undef, Str(""), Str("AIzaSy")}

\* the payload after its first comma, whatever follows
AfterFirstComma(s) ==
    The({IF commas = {} THEN Undef ELSE Str(SubSeq(s, Least(commas) + 1, Len(s))) :
            commas \in {Positions(s, ",")}})
\* imageUrl.split(',')[1]: the text between the first comma and the second,
\* undefined when there is no comma
SplitSecond(s) ==
    The({IF commas = {} THEN Undef
         ELSE The({Str(SubSeq(s, Least(commas) + 1,
                              IF later = {} THEN Len(s) ELSE Least(later) - 1)) :
                      later \in {commas \ {Least(commas)}}}) :
            commas \in {Positions(s, ",")}})

\* body.manual === true, with any truthy flag in its place
isManualTruthy(b) == Truthy(Get(b, "manual"))
\* const isManual = body.manual === true
isManual(b) == Get(b, "manual") = Bool(TRUE)

\* a credential is taken to be there whatever the environment holds
KeyNotChecked(key) == TRUE
\* the test of if (!geminiApiKey) throw
KeyConfigured(key) == Truthy(key)

\* the handler asks the vision service again after a failed call
RetryAfterVisionFailure == "scan"
\* where the handler stands after the vision call failed: the throw of
\* analyzeReceiptWithGemini is caught by POST, which answers and returns
AfterVisionFailure == "done"

\* useState(null), useState(null), useState(false), useState(null)
PageInit ==
    page = [imageFile |-> Null, scanResult |-> Null, loading |-> FALSE, error |-> Null,
            pc |-> "idle", base64Image |-> Null, got |-> NoResponse]

\* the requests under way at once
MaxRequests == 2
Requests == 1..MaxRequests

\* POST has been called for each request and stands at await dbConnect()
ReqInit ==
    reqs = [r \in Requests |-> [pc |-> "start", body |-> Undef, emitted |-> <<>>,
                                 extractedData |-> Undef, doc |-> Undef,
                                 response |-> NoResponse]]

Init ==
    /\ pc = "start"
    /\ body = Undef
    /\ emitted = <<>>
    /\ responseText = ""
    /\ tier = "none"
    /\ extractedData = Undef
    /\ created = <<>>
    /\ store = <<>>
    /\ response = NoResponse
    /\ vision = "none"
    /\ storage = "none"
    /\ geminiApiKey \in ApiKeys
    /\ fetches = 0
    /\ base64ImageData = Undef
    /\ DbInit
    /\ ReqInit
    /\ PageInit

\* await dbConnect() resolves
DbConnected ==
    /\ pc = "start"
    /\ pc' = "json"
    /\ UNCHANGED <<body, emitted, responseText, tier, extractedData, created, store,
                   response, vision, storage, geminiApiKey, fetches>>
    /\ UNCHANGED <<base64ImageData, outsidePost>>

\* await dbConnect() rejects: the exception leaves POST
DbConnectFails ==
    /\ pc = "start"
    /\ pc' = "done"
    /\ response' = Unhandled
    /\ UNCHANGED <<body, emitted, responseText, tier, extractedData, created, store,
                   vision, storage, geminiApiKey, fetches>>
    /\ UNCHANGED <<base64ImageData, outsidePost>>

\* await request.json() rejects (the body is no JSON text): the exception
\* leaves POST
RequestJsonFails ==
    /\ pc = "json"
    /\ pc' = "done"
    /\ response' = Unhandled
    /\ UNCHANGED <<body, emitted, responseText, tier, extractedData, created, store,
                   vision, storage, geminiApiKey, fetches>>
    /\ UNCHANGED <<base64ImageData, outsidePost>>

\* await request.json() resolves; the handler takes the manual or the scan branch
RequestJson ==
    /\ pc = "json"
    /\ \E b \in Bodies :
        /\ body' = b
        /\ IF isManual(b)
           THEN pc' = "manual" /\ response' = response
                /\ base64ImageData' = base64ImageData
           ELSE IF ~Truthy(Get(b, "imageUrl"))
           THEN pc' = "done" /\ response' = Failure(400, "No image data provided.")
                /\ base64ImageData' = base64ImageData
           ELSE IF Get(b, "imageUrl").t # "string"
           THEN pc' = "done" /\ response' = Unhandled
                /\ base64ImageData' = base64ImageData
           ELSE pc' = "scan" /\ response' = response
                /\ base64ImageData' = SplitSecond(Get(b, "imageUrl").s)
    /\ UNCHANGED <<emitted, responseText, tier, extractedData, created, store, vision,
                   storage, geminiApiKey, fetches, outsidePost>>

\* a create that rejects leaves a part of the record behind
PartlyWritten(st, doc) == Append(st, Obj([vendor |-> Get(doc, "vendor")]))
\* the collection after Expense.create rejected: nothing of doc is written
Rejected(st, doc) == st

\* a record equal to one the collection holds is not written again
InsertedUnlessPresent(st, doc) ==
    IF \E i \in 1..Len(st) : Obj([k \in DOMAIN st[i].o \ {"_id"} |-> st[i].o[k]]) = doc
    THEN st ELSE Append(st, Document(doc, Len(st) + 1))
\* the collection after Expense.create resolved: one more document
Inserted(st, doc) == Append(st, Document(doc, Len(st) + 1))

\* Expense.create(doc) and the response that follows it
Create(doc, failureMessage) ==
    /\ created' = Append(created, doc)
    /\ pc' = "done"
    /\ IF ~ExpenseSchema(doc)
       THEN /\ storage' = "invalid"
            /\ store' = Rejected(store, doc)
            /\ response' = Failure(500, failureMessage)
       ELSE \E up \in BOOLEAN :
            IF up
            THEN /\ storage' = "ok"
                 /\ store' = Inserted(store, doc)
                 /\ response' = Success(201, Document(doc, Len(store) + 1))
            ELSE /\ storage' = "down"
                 /\ store' = Rejected(store, doc)
                 /\ response' = Failure(500, failureMessage)

\* the manual branch
ManualCreate ==
    /\ pc = "manual"
    /\ \E doc \in {ManualRecord(body)} : Create(doc, "Failed to save manual entry.")
    /\ UNCHANGED <<body, emitted, responseText, tier, extractedData, vision,
                   geminiApiKey, fetches>>
    /\ UNCHANGED <<base64ImageData, outsidePost>>

\* analyzeReceiptWithGemini finds no credential and throws before any fetch
ApiKeyMissing ==
    /\ pc = "scan"
    /\ ~KeyConfigured(geminiApiKey)
    /\ vision' = "noKey"
    /\ pc' = "done"
    /\ response' = Failure(500, "Failed to process receipt.")
    /\ UNCHANGED <<body, emitted, responseText, tier, extractedData, created, store,
                   storage, geminiApiKey, fetches>>
    /\ UNCHANGED <<base64ImageData, outsidePost>>

\* the fetch is sent and rejects, or is answered with a status that is not a
\* success: analyzeReceiptWithGemini throws before it has a response text
VisionFails ==
    /\ pc = "scan"
    /\ KeyConfigured(geminiApiKey)
    /\ fetches < MaxFetches
    /\ fetches' = fetches + 1
    /\ \E why \in {"transport", "status"} : vision' = why
    /\ pc' = AfterVisionFailure
    /\ response' = Failure(500, "Failed to process receipt.")
    /\ UNCHANGED <<body, emitted, responseText, tier, extractedData, created, store,
                   storage, geminiApiKey>>
    /\ UNCHANGED <<base64ImageData, outsidePost>>

\* the vision service answers; analyzeReceiptWithGemini returns its record
VisionReturns ==
    /\ pc = "scan"
    /\ KeyConfigured(geminiApiKey)
    /\ fetches < MaxFetches
    /\ fetches' = fetches + 1
    /\ \E a \in Answers : \E text \in {RenderAnswer(a)} :
        \E result \in {analyzeReceiptWithGemini(text)} :
            /\ emitted' = a
            /\ responseText' = text
            /\ tier' = result.tier
            /\ extractedData' = result.data
    /\ vision' = "ok"
    /\ pc' = "create"
    /\ UNCHANGED <<body, created, store, response, storage, geminiApiKey>>
    /\ UNCHANGED <<base64ImageData, outsidePost>>

\* the scan branch after analyzeReceiptWithGemini
ScanCreate ==
    /\ pc = "create"
    /\ \E doc \in {ScanRecord(extractedData, Get(body, "imageUrl"))} :
        Create(doc, "Failed to process receipt.")
    /\ UNCHANGED <<body, emitted, responseText, tier, extractedData, vision,
                   geminiApiKey, fetches>>
    /\ UNCHANGED <<base64ImageData, outsidePost>>

Next ==
    \/ DbConnected
    \/ DbConnectFails
    \/ RequestJson
    \/ RequestJsonFails
    \/ ManualCreate
    \/ ApiKeyMissing
    \/ VisionFails
    \/ VisionReturns
    \/ ScanCreate

Spec == Init /\ [][Next]_vars

----------------------------------------------------------------------------
(* Several POST requests at once: each is suspended at await dbConnect(),   *)
(* at the await of the vision call and at await Expense.create, and the     *)
(* others run in between.                                                   *)

\* the bodies and the answers of the vision model the requests draw from
ReqBodies == {Obj([imageUrl |-> Str(ImageUrl)]), Obj(FullBody)}
ReqAnswers ==
    {<<JsonPiece(FullMembers)>>,
     <<Labelled("VENDOR", "Joe's Deli"), Priced("TOTAL", "12.50", 1250)>>}

\* request r calls dbConnect
ReqDbCall(r) == callers[r].calls = 0 /\ DbCall(r)

\* await dbConnect() throws in request r: the exception leaves POST
ReqDbThrew(r) ==
    /\ reqs[r].pc = "start" /\ callers[r].pc = "threw"
    /\ reqs' = [reqs EXCEPT ![r].pc = "done", ![r].response = Unhandled]
    /\ UNCHANGED <<dbVars, postVars, page>>

\* await dbConnect() returns in request r, the body is read and the branch taken
ReqJson(r) ==
    /\ reqs[r].pc = "start" /\ callers[r].pc = "returned"
    /\ \E b \in ReqBodies :
        reqs' = [reqs EXCEPT ![r].body = b,
                             ![r].pc = IF isManual(b) THEN "create" ELSE "scan"]
    /\ UNCHANGED <<dbVars, postVars, page>>

\* the vision call of request r fails
ReqVisionFails(r) ==
    /\ reqs[r].pc = "scan"
    /\ reqs' = [reqs EXCEPT ![r].pc = AfterVisionFailure,
                            ![r].response = Failure(500, "Failed to process receipt.")]
    /\ UNCHANGED <<dbVars, postVars, page>>

\* the vision call of request r is answered and analyzeReceiptWithGemini returns
ReqVisionReturns(r) ==
    /\ reqs[r].pc = "scan"
    /\ \E a \in ReqAnswers : \E result \in {analyzeReceiptWithGemini(RenderAnswer(a))} :
        reqs' = [reqs EXCEPT ![r].emitted = a, ![r].extractedData = result.data,
                             ![r].pc = "create"]
    /\ UNCHANGED <<dbVars, postVars, page>>

\* request r calls Expense.create with its record and answers
ReqCreate(r) ==
    /\ reqs[r].pc = "create"
    /\ \E doc \in {IF isManual(reqs[r].body) THEN ManualRecord(reqs[r].body)
                    ELSE ScanRecord(reqs[r].extractedData, Get(reqs[r].body, "imageUrl"))} :
        \E up \in BOOLEAN :
        IF ~(up /\ ExpenseSchema(doc))
        THEN /\ store' = Rejected(store, doc)
             /\ reqs' = [reqs EXCEPT ![r].pc = "done", ![r].doc = doc,
                                     ![r].response =
                                         Failure(500, IF isManual(reqs[r].body)
                                                      THEN "Failed to save manual entry."
                                                      ELSE "Failed to process receipt.")]
        ELSE /\ store' = Inserted(store, doc)
             /\ reqs' = [reqs EXCEPT ![r].pc = "done", ![r].doc = doc,
                                     ![r].response = Success(201, Document(doc, Len(store) + 1))]
    /\ UNCHANGED <<dbVars, postButStore, page>>

\* the process with its credential configured
InitConfigured == Init /\ geminiApiKey = Str("AIzaSy")


NextTwo ==
    \/ \E r \in Requests : ReqDbCall(r)
    \/ ConnectResolves
    \/ ConnectRejects
    \/ \E r \in Requests : DbResume(r)
    \/ \E r \in Requests : ReqDbThrew(r)
    \/ \E r \in Requests : ReqJson(r)
    \/ \E r \in Requests : ReqVisionFails(r)
    \/ \E r \in Requests : ReqVisionReturns(r)
    \/ \E r \in Requests : ReqCreate(r)

SpecTwo == InitConfigured /\ [][NextTwo]_vars

\* the process as far as dbConnect goes: any callers, any number of calls
DbNext ==
    \/ \E c \in Callers : DbCall(c)
    \/ ConnectResolves
    \/ ConnectRejects
    \/ \E c \in Callers : DbResume(c)


SpecDb == InitConfigured /\ [][DbNext]_vars

\* a call that awaits a settled promise is resumed: its continuation is a
\* job of the event loop
SpecDbLive ==
    /\ InitConfigured
    /\ [][DbNext]_vars
    /\ \A c \in Callers : WF_vars(DbResume(c))

----------------------------------------------------------------------------
(* The scanner page: handleFileChange and handleSubmit *)

\* the files the user picks, and the records success responses carry
PageFiles == {Str("a.jpg"), Str("b.jpg"), Str("c.png")}
PageRecord(id) == Document(Obj([vendor |-> Str("Acme"), total |-> Num(1999)]), id)

\* the JSON responses the page may get: those of the route, and a failure
\* that carries no message
PageResponses ==
    {Success(201, PageRecord(1)), Success(201, PageRecord(2)), Failure(400, "No image data provided."),
     Failure(500, "Failed to process receipt."), Failure(502, "")}

\* the message of the response as it is
MessageAsIs(resp) == Str(resp.message)
\* data.message || 'Failed to scan receipt.'
MessageOrDefault(resp) == Or(Str(resp.message), Str("Failed to scan receipt."))

\* the user picks a file, or closes the dialog without one
HandleFileChange ==
    /\ \E f \in PageFiles \cup {Null} :
        page' = IF f = Null THEN page
                ELSE [page EXCEPT !.imageFile = f, !.scanResult = Null, !.error = Null]
    /\ UNCHANGED <<postVars, dbVars, reqs>>

\* the form is submitted (its button is disabled while loading): without a
\* file an alert and nothing else; with one, loading is set and the read starts
HandleSubmit ==
    /\ ~page.loading
    /\ page' = IF page.imageFile = Null THEN page
               ELSE [page EXCEPT !.loading = TRUE, !.error = Null, !.pc = "reading",
                                 !.got = NoResponse]
    /\ UNCHANGED <<postVars, dbVars, reqs>>

\* reader.onloadend: the read ended, with a data URL or without a result,
\* and the fetch is sent
ReaderLoadEnd ==
    /\ page.pc = "reading"
    /\ \E result \in {Str(ImageUrl), Null} :
        page' = [page EXCEPT !.base64Image = result, !.pc = "fetching"]
    /\ UNCHANGED <<postVars, dbVars, reqs>>

\* the fetch is answered with JSON: the result or the error is set, then finally
ScanResponds ==
    /\ page.pc = "fetching"
    /\ \E resp \in PageResponses :
        page' = IF resp.status \in 200..299 /\ resp.success
                THEN [page EXCEPT !.scanResult = resp.data, !.loading = FALSE,
                                  !.pc = "idle", !.got = resp]
                ELSE [page EXCEPT !.error = MessageOrDefault(resp), !.loading = FALSE,
                                  !.pc = "idle", !.got = resp]
    /\ UNCHANGED <<postVars, dbVars, reqs>>

\* the fetch rejects, or the body of the response is no JSON (an exception
\* left POST): catch, then finally
ScanThrows ==
    /\ page.pc = "fetching"
    /\ page' = [page EXCEPT !.error = Str("Network error or server unavailable."),
                            !.loading = FALSE, !.pc = "idle", !.got = Unhandled]
    /\ UNCHANGED <<postVars, dbVars, reqs>>

NextPage ==
    \/ HandleFileChange
    \/ HandleSubmit
    \/ ReaderLoadEnd
    \/ ScanResponds
    \/ ScanThrows

\* the read of the file ends and the fetch settles: the browser fires
\* onloadend after every read and settles every fetch
SpecPage ==
    /\ InitConfigured
    /\ [][NextPage]_vars
    /\ WF_vars(ReaderLoadEnd)
    /\ WF_vars(ScanResponds)
    /\ WF_vars(ScanThrows)

----------------------------------------------------------------------------
(* What the properties speak about *)

\* the request took the manual branch
IsManual == Get(body, "manual") = Bool(TRUE)

\* Expense.create has been called, and the record it was called with
Handed == Len(created) > 0
Doc == created[Len(created)]

\* the response text has arrived and analyzeReceiptWithGemini has returned
Analyzed == vision = "ok"

\* the piece is written with the character c, a brace: an object is written
\* between braces
WrittenWith(piece, c) ==
    CASE piece.k = "json" -> TRUE
      [] piece.k = "line" -> Positions(piece.label \o piece.value, c) # {}
      [] piece.k = "text" -> Positions(piece.s, c) # {}

\* the lines of the answer that hold an opening and a closing brace
Opens == {i \in 1..Len(emitted) : WrittenWith(emitted[i], "{")}
Closes == {i \in 1..Len(emitted) : WrittenWith(emitted[i], "}")}

\* the text from the first { to the last } of the answer is one object the
\* vision model wrote, and the object it wrote
DecodesToObject ==
    /\ Opens # {} /\ Closes # {}
    /\ Least(Opens) = Greatest(Closes)
    /\ emitted[Least(Opens)].k = "json"
EmittedObject == Denoted(emitted[Least(Opens)])

\* the labels the three patterns of the second tier match, as the answers write them
VendorLabels == {"VENDOR", "Store"}
DateLabels == {"DATE", "Date"}
TotalLabels == {"TOTAL", "Subtotal"}

\* the lines of the answer with one of the labels
LabelledLines(labels) ==
    {i \in 1..Len(emitted) : emitted[i].k = "line" /\ emitted[i].label \in labels}

----------------------------------------------------------------------------
(* Properties *)

\* C1: when the text from the first { to the last } of the response decodes
\* as a JSON object the record is the first tier's, and the second tier is
\* used only when there is no such text or it does not decode.
C1_TierByDecoding == Analyzed => (tier = "tier1" <=> DecodesToObject)

\* C2: on the scan path the category and the payment method handed to
\* Expense.create are labels of ExpenseCategory and PaymentMethod: in the
\* first tier a candidate that is exactly a label is kept and any other
\* candidate, or none, becomes Other; in the second tier both are Other.
C2_EnumMembership ==
    /\ Analyzed =>
        /\ Get(extractedData, "category").t = "string"
        /\ Get(extractedData, "category").s \in ExpenseCategory
        /\ Get(extractedData, "paymentMethod").t = "string"
        /\ Get(extractedData, "paymentMethod").s \in PaymentMethod
        /\ tier = "tier2" =>
            /\ Get(extractedData, "category") = Str("Other")
            /\ Get(extractedData, "paymentMethod") = Str("Other")
        /\ (tier = "tier1" /\ DecodesToObject) =>
            LET c == Get(EmittedObject, "category")
                m == Get(EmittedObject, "paymentMethod")
            IN  /\ Get(extractedData, "category") =
                       IF c.t = "string" /\ c.s \in ExpenseCategory THEN c ELSE Str("Other")
                /\ Get(extractedData, "paymentMethod") =
                       IF m.t = "string" /\ m.s \in PaymentMethod THEN m ELSE Str("Other")
    /\ (Handed /\ ~IsManual) =>
        /\ Get(Doc, "category") = Get(extractedData, "category")
        /\ Get(Doc, "paymentMethod") = Get(extractedData, "paymentMethod")

\* C2 happens: a decoded object with a category that is no label has been
\* handed to Expense.create with category Other
C2_Witness ==
    /\ Handed /\ ~IsManual /\ tier = "tier1" /\ DecodesToObject
    /\ Get(EmittedObject, "category") = Str("food & dining")
    /\ Get(Doc, "category") = Str("Other")

\* C3: the confidence of every record handed to Expense.create lies in
\* [0, 1]: the first tier clamps its candidate (1.7 gives 1.0 and -0.2 gives
\* 0.0), the second tier writes 0.3 and the manual branch writes 1.
C3_ConfidenceRange ==
    /\ \A i \in 1..Len(created) :
        /\ Get(created[i], "confidence").t = "number"
        /\ Get(created[i], "confidence").n \in 0..100
    /\ Analyzed =>
        /\ Get(extractedData, "confidence").t = "number"
        /\ Get(extractedData, "confidence").n \in 0..100
        /\ tier = "tier2" => Get(extractedData, "confidence") = Num(30)
        /\ (tier = "tier1" /\ DecodesToObject) =>
            LET c == Get(EmittedObject, "confidence")
            IN  /\ c = Num(170) => Get(extractedData, "confidence") = Num(100)
                /\ c = Num(-20) => Get(extractedData, "confidence") = Num(0)
                /\ c = Num(85) => Get(extractedData, "confidence") = Num(85)
    /\ (Handed /\ ~IsManual) => Get(Doc, "confidence") = Get(extractedData, "confidence")
    /\ (Handed /\ IsManual) => Get(Doc, "confidence") = Num(100)

\* C3 happens: a candidate of 1.7 has been handed to Expense.create as 1.0
C3_Witness ==
    /\ Handed /\ ~IsManual /\ tier = "tier1" /\ DecodesToObject
    /\ Get(EmittedObject, "confidence") = Num(170)
    /\ Get(Doc, "confidence") = Num(100)

\* C4: no record handed to Expense.create, on the scan path or the manual
\* one, carries a negative subtotal, tax, tip, discount or total.
C4_NoNegativeAmount ==
    \A i \in 1..Len(created) : \A k \in AmountKeys :
        Get(created[i], k).t = "number" => Get(created[i], k).n >= 0

\* C5: a scan whose vision call answered, with a store that accepts writes,
\* ends in a success response: no record of the analyzer is refused.
C5_NoFailureFromNormalization ==
    (pc = "done" /\ Analyzed /\ storage # "down") =>
        /\ response.success
        /\ response.status = 201
        /\ Len(store) = 1

\* C6 as stated: the rawText of the record the analyzer returns is always
\* the full response text of the vision model.
C6_RawTextIsResponseText ==
    Analyzed => Get(extractedData, "rawText") = Str(responseText)

\* C6: the rawText of the record the analyzer returns is the full response
\* text in the second tier, and in the first tier when the decoded object has
\* no rawText or an empty one; a non-empty rawText of the decoded object is
\* kept in its place. The scan path hands that rawText to Expense.create.
C6_RawTextOwnOrResponseText ==
    /\ (Analyzed /\ tier = "tier2") => Get(extractedData, "rawText") = Str(responseText)
    /\ (Analyzed /\ tier = "tier1" /\ DecodesToObject) =>
        LET own == Get(EmittedObject, "rawText")
        IN  Get(extractedData, "rawText") =
                IF own.t = "string" /\ own.s # "" THEN own ELSE Str(responseText)
    /\ (Handed /\ ~IsManual) => Get(Doc, "rawText") = Get(extractedData, "rawText")

\* C6 happens: the decoded object had a rawText of its own, and the record
\* carries it and not the response text
C6_Witness ==
    /\ Handed /\ ~IsManual /\ tier = "tier1" /\ DecodesToObject
    /\ Get(EmittedObject, "rawText") = Str("MILK 3.00")
    /\ Get(Doc, "rawText") = Str("MILK 3.00")
    /\ Str(responseText) # Get(Doc, "rawText")

OnlyEnumsDiffer ==
    /\ body.t = "object"
    /\ DOMAIN body.o = DOMAIN FullBody
    /\ \A k \in DOMAIN FullBody \ {"category", "paymentMethod"} : body.o[k] = FullBody[k]

\* C8: a manual body whose category or payment method is no label is stored
\* with Other in its place and answered with success; it is never refused
\* for the mismatch.
C8_ManualEnumCorrected ==
    (pc = "done" /\ IsManual /\ OnlyEnumsDiffer /\ storage # "down") =>
        /\ response.success
        /\ Len(store) = 1
        /\ Get(store[1], "category").s \in ExpenseCategory
        /\ Get(store[1], "paymentMethod").s \in PaymentMethod

\* the manual body has every field, each valid for its path of the schema
ValidManualBody ==
    /\ IsManual
    /\ \A k \in ManualKeys : Get(body, k) # Undef
    /\ Get(body, "date").t = "string" /\ IsIsoDate(Get(body, "date").s)
    /\ ExpenseSchema(Obj(SetKey(SetKey(body.o, "date", NewDate(Get(body, "date"))),
                                "source", Str("manual"))))

\* the fields of a manual body the record takes as they are
CopiedKeys == ManualKeys \ {"date", "expenseType", "confidence"}

\* the record agrees with the manual body on the keys K and on the date
AgreesOn(K) ==
    /\ \A k \in K : Get(Doc, k) = Get(body, k)
    /\ Get(Doc, "date") = DateV(Get(body, "date").s)
    /\ Get(Doc, "source") = Str("manual")

C10_Idempotent ==
    (Analyzed /\ tier = "tier1") =>
        /\ ~LineItemsThrow(extractedData)
        /\ Tier1Record(extractedData, responseText) = extractedData

\* C11: a record handed to Expense.create has source manual exactly when the
\* manual flag of the body is the boolean true, and source scan exactly when
\* it was built from a response of the vision model; there is no other
\* source, and a manual request sends nothing to the vision service.
C11_Provenance ==
    /\ \A i \in 1..Len(created) :
        /\ Get(created[i], "source") \in {Str("manual"), Str("scan")}
        /\ Get(created[i], "source") = Str("manual") <=> IsManual
        /\ Get(created[i], "source") = Str("scan") <=> Analyzed
    /\ \A i \in 1..Len(store) : Get(store[i], "source") = Get(created[i], "source")
    /\ IsManual => (fetches = 0 /\ vision = "none")

\* C11 happens: a body whose manual flag is the text "true" has been scanned
\* and its record stored with source scan
C11_Witness ==
    /\ Get(body, "manual") = Str("true")
    /\ storage = "ok" /\ fetches = 1
    /\ Get(store[1], "source") = Str("scan")

\* C12: a request calls Expense.create at most once and the collection gets
\* a record only whole, from that one call; a request that ended in a failure
\* response, or that has not reached the end of its create, has added
\* nothing, and a request that ended in a success response has added exactly
\* one record, the one it answers with.
C12_SingleCreate ==
    /\ Len(created) <= 1
    /\ Len(store) <= Len(created)
    /\ \A i \in 1..Len(store) : store[i] = Document(created[i], i)
    /\ pc # "done" => store = <<>>
    /\ (pc = "done" /\ ~response.success) => store = <<>>
    /\ (pc = "done" /\ response.success) =>
        /\ Len(store) = 1
        /\ response.data = store[1]

\* C12 happens: Expense.create was called with a record the schema accepts,
\* the write failed, and the request ended in a failure with nothing stored
C12_Witness ==
    /\ pc = "done" /\ Handed /\ storage = "down"
    /\ ~response.success
    /\ store = <<>>

\* C13: every request that has ended was answered in one of two shapes:
\* success true with the stored record, or success false with a message and
\* no record data; so also when the database connection or the decoding of
\* the request body fails.
C13_ResponseShape ==
    pc = "done" =>
        /\ response.kind = "json"
        /\ \/ /\ response.success
              /\ Len(store) = 1 /\ response.data = store[1]
           \/ /\ ~response.success
              /\ response.message # ""
              /\ response.data = Null

\* C14: a scan request sends at most one request to the vision service and
\* never a second one: when the call is answered with a status that is no
\* success, or the transport fails, the request has ended with a failure
\* response after that one call, and Expense.create was not called.
C14_NoRetry ==
    /\ fetches <= 1
    /\ vision \in {"transport", "status"} =>
        /\ fetches = 1
        /\ pc = "done"
        /\ response = Failure(500, "Failed to process receipt.")
        /\ created = <<>> /\ store = <<>>

\* C14 happens: the vision service answered with a status that is no success
\* and the request ended
C14_Witness ==
    /\ vision = "status" /\ fetches = 1
    /\ pc = "done" /\ ~response.success

\* C15: with no GEMINI_API_KEY in the environment a scan request fails at
\* once: nothing is sent to the vision service, nothing is parsed or
\* normalised, Expense.create is not called, and the caller gets a failure
\* response.
C15_MissingApiKey ==
    (~Truthy(geminiApiKey) /\ ~IsManual) =>
        /\ fetches = 0
        /\ vision \in {"none", "noKey"}
        /\ responseText = "" /\ tier = "none" /\ extractedData = Undef
        /\ created = <<>> /\ store = <<>>
        /\ pc \notin {"manual", "create"}
        /\ pc = "done" => ~response.success
        /\ vision = "noKey" =>
            /\ pc = "done"
            /\ response = Failure(500, "Failed to process receipt.")

\* C15 happens: a scan request with an image and no credential has ended
C15_Witness ==
    /\ geminiApiKey = Undef /\ Truthy(Get(body, "imageUrl")) /\ ~IsManual
    /\ pc = "done" /\ vision = "noKey"

\* C16: the date of every record handed to Expense.create is a calendar
\* date, and it is the current date whenever the candidate (the date of the
\* decoded object, the value of the date line in the second tier, the date of
\* the manual body) is absent, empty or no calendar date.
C16_DateDefault ==
    Handed =>
        /\ Get(Doc, "date") # InvalidDate
        /\ (IsManual /\ ~(Get(body, "date").t = "string" /\ IsIsoDate(Get(body, "date").s))) =>
            Get(Doc, "date") = DateV(Today)
        /\ (~IsManual /\ tier = "tier1" /\ DecodesToObject) =>
            LET c == Get(EmittedObject, "date")
            IN  ~(c.t = "string" /\ IsIsoDate(c.s)) => Get(Doc, "date") = DateV(Today)
        /\ (~IsManual /\ tier = "tier2" /\ ~DecodesToObject) =>
            LET ds == LabelledLines(DateLabels)
            IN  (ds = {} \/ ~IsIsoDate(emitted[Least(ds)].value)) =>
                    Get(Doc, "date") = DateV(Today)

\* C17: in the first tier each of subtotal, tax, tip, discount and total is
\* the same number whether its candidate is written as a number or as the
\* decimal text of that number, and a candidate that is absent or no number
\* never gives NaN: it gives 0, or for tip and discount 0 or nothing.
C17_NumericCoercion ==
    (Analyzed /\ tier = "tier1" /\ DecodesToObject) =>
        \A k \in AmountKeys :
            LET c == Get(EmittedObject, k)
                r == Get(extractedData, k)
            IN  /\ r # NaN
                /\ \A p \in {<<Num(725), 725>>, <<Str("7.25"), 725>>, <<Num(0), 0>>,
                              <<Str("0"), 0>>, <<Num(-500), -500>>, <<Str("-5"), -500>>} :
                        c = p[1] => r = Num(p[2])
                /\ c \in {Undef, Null, Str("abc")} =>
                        r \in {Num(0)} \cup (IF k \in {"tip", "discount"} THEN {Undef} ELSE {})

\* C18: a record made from a response that supplies no confidence has
\* confidence 0.5, in the first tier and in the second alike; a manual
\* record has confidence 1; a confidence the response supplies, 0 included,
\* is kept after clamping and not replaced by the default.
C18_ConfidenceDefault ==
    /\ (Analyzed /\ tier = "tier1" /\ DecodesToObject) =>
        LET c == Get(EmittedObject, "confidence")
            r == Get(extractedData, "confidence")
        IN  /\ c \in {Undef, Null} => r = Num(50)
            /\ c.t = "number" => r = MathMin(MathMax(c, Num(0)), Num(100))
            /\ c = Str("0.9") => r = Num(90)
    /\ (Analyzed /\ tier = "tier2") => Get(extractedData, "confidence") = Num(50)
    /\ (Handed /\ ~IsManual) => Get(Doc, "confidence") = Get(extractedData, "confidence")
    /\ (Handed /\ IsManual) => Get(Doc, "confidence") = Num(100)

\* C19: when the lineItems candidate is missing or is no array, the
\* lineItems of the record are the empty array: so for the decoded object of
\* the first tier, and so for the body of a manual request.
C19_LineItemsDefault ==
    /\ (Analyzed /\ DecodesToObject /\ Get(EmittedObject, "lineItems").t # "array") =>
        /\ tier = "tier1"
        /\ Get(extractedData, "lineItems") = Arr(<<>>)
        /\ Handed => Get(Doc, "lineItems") = Arr(<<>>)
    /\ (Handed /\ IsManual /\ Get(body, "lineItems").t # "array") =>
        Get(Doc, "lineItems") = Arr(<<>>)

\* C20: every line item of every record handed to Expense.create has a name
\* that is a non-empty text, a quantity that is a number of at least 0, and a
\* unitPrice and a totalPrice that are numbers, whatever the candidate items
\* are; and the record has as many items as the candidate array, in its
\* order.
C20_LineItems ==
    Handed =>
        LET li == Get(Doc, "lineItems")
            cand == IF IsManual THEN Get(body, "lineItems")
                    ELSE IF DecodesToObject THEN Get(EmittedObject, "lineItems")
                    ELSE Undef
        IN  /\ li.t = "array"
            /\ \A i \in 1..Len(li.a) :
                /\ Get(li.a[i], "name").t = "string"
                /\ Get(li.a[i], "name").s # ""
                /\ Get(li.a[i], "quantity").t = "number"
                /\ Get(li.a[i], "quantity").n >= 0
                /\ Get(li.a[i], "unitPrice").t = "number"
                /\ Get(li.a[i], "totalPrice").t = "number"
            /\ cand.t = "array" =>
                /\ Len(li.a) = Len(cand.a)
                /\ \A i \in 1..Len(cand.a) :
                    Truthy(Get(cand.a[i], "name")) =>
                        Get(li.a[i], "name") = Get(cand.a[i], "name")

\* C22: the patterns of the second tier match only lines that begin with
\* their label: the total is the amount of the first line that begins with
\* total and a colon, never that of a line where total: ends another label,
\* so that Subtotal: 10.00 before TOTAL: 12.50 gives 12.50; the vendor and
\* the date likewise come from the first line that begins with their label.
C22_LabelAnchored ==
    (Analyzed /\ ~DecodesToObject) =>
        LET vs == LabelledLines(VendorLabels)
            ds == LabelledLines(DateLabels)
            ts == LabelledLines({"TOTAL"})
        IN  /\ Get(extractedData, "total") =
                   IF ts = {} THEN Num(0) ELSE Num(emitted[Least(ts)].n)
            /\ Get(extractedData, "vendor") =
                   IF vs = {} THEN Str("Unknown Vendor") ELSE Str(emitted[Least(vs)].value)
            /\ Get(extractedData, "date") =
                   IF ds = {} THEN Str(Today) ELSE Str(emitted[Least(ds)].value)
            /\ responseText = "Subtotal: 10.00\nTOTAL: 12.50" =>
                   Get(extractedData, "total") = Num(1250)

\* C23 as stated: a request without manual: true and without an image
\* payload ends in 400 with no call to the vision service and no record, and
\* what is sent to the vision service is the payload without everything up
\* to and including its first comma.
C23_PrefixUpToFirstComma ==
    /\ (body # Undef /\ ~IsManual /\ ~Truthy(Get(body, "imageUrl"))) =>
        /\ pc = "done" /\ response = Failure(400, "No image data provided.")
        /\ fetches = 0 /\ created = <<>>
    /\ fetches >= 1 => base64ImageData = AfterFirstComma(Get(body, "imageUrl").s)

\* C23: a request without manual: true and without an image payload ends in
\* 400 with no call to the vision service and no record; what is sent to the
\* vision service is the text of the payload between its first comma and its
\* second, or its end when there is no second: the payload without its
\* prefix when the payload has one comma, and nothing when it has none.
C23_ImagePayload ==
    /\ (body # Undef /\ ~IsManual /\ ~Truthy(Get(body, "imageUrl"))) =>
        /\ pc = "done" /\ response = Failure(400, "No image data provided.")
        /\ fetches = 0 /\ created = <<>>
    /\ fetches >= 1 =>
        LET s == Get(body, "imageUrl").s
            commas == Positions(s, ",")
            d == base64ImageData
        IN  /\ commas = {} => d = Undef
            /\ commas # {} =>
                LET first == Least(commas)
                IN  /\ d.t = "string"
                    /\ Positions(d.s, ",") = {}
                    /\ SubSeq(s, first + 1, first + Len(d.s)) = d.s
                    /\ first + Len(d.s) = Len(s) \/ Ch(s, first + Len(d.s) + 1) = ","
            /\ s = ImageUrl => d = Str("QUJD")

\* C23 happens: a data URL has been scanned and the vision service was sent
\* its base64 text
C23_Witness ==
    /\ Get(body, "imageUrl") = Str(ImageUrl)
    /\ fetches = 1 /\ vision = "ok"
    /\ base64ImageData = Str("QUJD")

\* C24: whatever the number of calls of dbConnect and their interleaving,
\* calls that start while an earlier one still awaits the connection
\* included, mongoose.connect is invoked at most once, and every call that
\* has returned has returned the one handle the cache holds.
C24_ConnectOnce ==
    /\ Len(promises) <= 1
    /\ \A c \in Callers :
        callers[c].pc = "returned" =>
            /\ callers[c].got = Mongoose
            /\ callers[c].got = cached.conn
    /\ \A c, d \in Callers :
        (callers[c].pc = "returned" /\ callers[d].pc = "returned") =>
            callers[c].got = callers[d].got

\* C24 happens: two calls awaited the same connection, one having started
\* while the other was waiting, and both have returned
C24_Witness ==
    /\ callers[1].pc = "returned" /\ callers[1].awaits = 1
    /\ callers[2].pc = "returned" /\ callers[2].awaits = 1
    /\ Len(promises) = 1

\* C25: once the first connection attempt is rejected, the rejected promise
\* stays in the cache and conn stays null: no later call of dbConnect starts
\* a new attempt, none returns a connection, and every call that awaits ends
\* by throwing that rejection.
C25_StickyFailure ==
    /\ [](promises = <<"rejected">> =>
            /\ cached = [conn |-> Null, promise |-> 1]
            /\ \A c \in Callers :
                /\ callers[c].pc # "returned"
                /\ callers[c].pc = "await" => callers[c].awaits = 1)
    /\ [][promises = <<"rejected">> => (promises' = promises /\ cached' = cached)]_vars
    /\ \A c \in Callers :
        (promises = <<"rejected">> /\ callers[c].pc = "await") ~> callers[c].pc = "threw"

\* C25 happens: the connection was rejected, a call failed, and the same
\* caller called again and failed again on the same promise
C25_Witness ==
    /\ promises = <<"rejected">>
    /\ callers[1].pc = "threw" /\ callers[1].calls = 2 /\ callers[1].awaits = 1
    /\ callers[2].pc = "threw"

\* C21: requests under way at once do not touch each other, however they
\* interleave at await dbConnect(), at the vision call and at the create: the
\* record each hands to Expense.create is the one its own body and its own
\* answer give, a request answered with success has its own document in the
\* collection, the collection holds one document for each such request and
\* no other, and two requests with the same receipt give two documents.
C21_Independent ==
    /\ \A r \in Requests :
        reqs[r].pc = "done" =>
            /\ reqs[r].doc # Undef =>
                reqs[r].doc =
                    IF Get(reqs[r].body, "manual") = Bool(TRUE)
                    THEN ManualRecord(reqs[r].body)
                    ELSE ScanRecord(analyzeReceiptWithGemini(RenderAnswer(reqs[r].emitted)).data,
                                    Get(reqs[r].body, "imageUrl"))
            /\ reqs[r].response.success =>
                \E i \in 1..Len(store) :
                    /\ store[i] = reqs[r].response.data
                    /\ store[i] = Document(reqs[r].doc, i)
                    /\ \A q \in Requests \ {r} :
                        reqs[q].response.success => reqs[q].response.data # store[i]
            /\ ~reqs[r].response.success =>
                /\ reqs[r].response.data = Null
                /\ \A i \in 1..Len(store) : \E q \in Requests \ {r} :
                        reqs[q].response.success /\ reqs[q].response.data = store[i]
    /\ Len(store) = Cardinality({r \in Requests : reqs[r].response.success})

\* C21 happens: two requests with the same image and the same answer of the
\* vision model have both been answered with success, and the collection
\* holds two documents
C21_Witness ==
    /\ \A r \in {1, 2} : reqs[r].pc = "done" /\ reqs[r].response.success
    /\ reqs[1].body = reqs[2].body /\ ~isManual(reqs[1].body)
    /\ reqs[1].emitted = reqs[2].emitted
    /\ Len(store) = 2
    /\ reqs[1].doc = reqs[2].doc

\* C26: on the scanner page every submit with a file, which sets loading,
\* is followed by loading being false again, whether the scan succeeds, is
\* answered with a failure or throws; and in the step that sets loading back
\* to false exactly one of two things is done: scanResult is set to the
\* record of the response, after a success, or error is set to a message
\* that is not empty, after a failure.
C26_LoadingEnds ==
    /\ page.loading ~> ~page.loading
    /\ [][(page.loading /\ ~page'.loading) =>
            \/ /\ page'.got.success
               /\ page'.scanResult = page'.got.data /\ page'.scanResult # Null
               /\ page'.error = Null
            \/ /\ ~page'.got.success
               /\ page'.scanResult = page.scanResult
               /\ page'.error.t = "string" /\ page'.error.s # ""]_vars
    /\ [](page.loading <=> page.pc # "idle")

\* C26 happens: a submit ended with a failure that carries no message, and
\* the page shows its own message
C26_Witness ==
    /\ ~page.loading /\ page.got = Failure(502, "")
    /\ page.error = Str("Failed to scan receipt.")

============================================================================
